---- MODULE Spec2Model ----
(***************************************************************************)
(* SAVER_LOGGER (src/SAVER_LOGGER.py): the ingestion pipeline of the       *)
(* BurpExtender class.  Producer threads enqueue traffic events            *)
(* (processHttpMessage), one worker thread drains the queue and builds the *)
(* log (Worker.run, _handle_request, _handle_response), the UI clears the  *)
(* log (clear_logs) and the exporters write it to files (_write_full_csv   *)
(* and its four callers).  Every block the code runs between lock() and    *)
(* unlock() is one step that starts with the lock held; taking the lock is *)
(* a step of its own.                                                      *)
(***************************************************************************)
EXTENDS Integers, Sequences, FiniteSets, TLC

\* ------------------------------------------------------------------ bounds
\* Number of HTTP messages the traffic source delivers (each has a request
\* event and a response event).
NMsgs == 2

Msgs == 1..NMsgs
\* The values of the wall clock (seconds, as strftime renders them): the
\* second in which the run starts and the next one.
Times == {1, 2}
\* System.currentTimeMillis() / 1000 at clock value 0: the epoch seconds are
\* far above any interval, so that last_backup_time = 0 is long ago.
Epoch == 10
\* The values of the interval spinner, in clock values.
Intervals == {1}

\* ----------------------------------------------------------------- threads
Producers == {"p1", "p2"}
\* The java.util.Timer objects _start_backup_scheduler creates, each with a
\* thread of its own.  Two are told apart: a cancelled timer whose thread has
\* ended is forgotten and its name used again.
Timers == {"t1", "t2"}
\* The callers of _write_full_csv: export_csv_manual and backup_now (button
\* listeners, run by the UI thread), extensionUnloaded (run by the thread
\* of the host that unloads the extension) and _auto_backup (run by the
\* thread of a timer).
Exporters == {"exp", "bak", "exit"} \cup Timers
UiExporters == {"exp", "bak"}
ThreadOf(e) == IF e \in UiExporters THEN "ui" ELSE e
\* The file an exporter writes: one per manual caller (the names carry a
\* timestamp), SAVER_LOGGER_AUTOSAVE.csv for every automatic backup.
PathOf(e) == IF e \in Timers THEN "auto" ELSE e
Free == "free"

\* ---------------------------------------------------------- message handle
\* What the read-only accessors of a message handle return.  Text is a
\* sequence of characters, so that the CSV sanitiser has something to do.
UrlSeq == << <<"a", ",", "b">>, <<"c">> >>
Urls == { UrlSeq[i] : i \in DOMAIN UrlSeq }
NoUrl == << >>

Host(m) == IF m % 2 = 1 THEN <<"h">> ELSE <<"h", "\n", "x">>
Method(m) == IF m % 2 = 1 THEN <<"G">> ELSE <<"P", "\r">>
ToolName(m) == IF m % 2 = 1 THEN <<"Proxy">> ELSE <<"Intruder">>
\* len(req.getParameters())
Params(m) == m - 1
\* "-" without response bytes, "Error" when analyzeResponse throws, else the code
StatusOf(m) == CASE m % 3 = 1 -> <<"200">> [] m % 3 = 2 -> <<"-">> [] OTHER -> <<"Error">>

NoItem == [msg |-> 0, is_request |-> FALSE]
Events == [msg : Msgs, is_request : BOOLEAN]

VARIABLES
    \* the wall clock and the message handles' URLs
    clock, msg_url,
    \* producer threads inside processHttpMessage
    ppc, pitem,
    \* self.processing_queue, self.queue_lock
    processing_queue, queue_lock,
    \* self.log_data, self.request_counter, self.data_lock
    log_data, request_counter, data_lock,
    \* self.request_tracking, self.tracking_lock
    request_tracking, tracking_lock,
    \* the worker thread: position and locals
    wpc, work_item, w_time, w_id, w_count, w_start, w_ip,
    \* the UI thread inside clear_logs
    cpc,
    \* self.shutdown_flag, self.backup_timer (the timer it refers to)
    shutdown_flag, backup_timer,
    \* self.auto_backup_enabled, self.backup_interval_seconds,
    \* self.last_backup_time
    auto_backup_enabled, backup_interval_seconds, last_backup_time,
    \* the timers: "unborn", "active" or "cancelled"; the position of the
    \* timer's thread in Task.run and its current_time
    timer_state, tpc, t_now,
    \* the UI thread inside save_settings
    spc,
    \* exporters: position, data_snapshot, what was shown or printed at the end
    xpc, data_snapshot, report,
    \* the files on disk, by path
    files,
    \* history (not program state): events in enqueue order, in dequeue order,
    \* the time a request was tracked (until its response is finalized),
    \* whether a clear completed since the last append
    enqueued, dequeued, req_time, cleared,
    \* history, per exporter: the store when the call began, whether a clear
    \* emptied the store since then
    begin_store, clear_seen

envVars == <<clock, msg_url>>
prodVars == <<ppc, pitem>>
queueVars == <<processing_queue, queue_lock>>
dataVars == <<log_data, request_counter, data_lock>>
trackVars == <<request_tracking, tracking_lock>>
workerVars == <<wpc, work_item, w_time, w_id, w_count, w_start, w_ip>>
uiVars == <<cpc>>
schedVars == <<auto_backup_enabled, backup_interval_seconds, last_backup_time,
               timer_state, tpc, t_now, spc>>
lifeVars == <<shutdown_flag, backup_timer, schedVars>>
exportVars == <<xpc, data_snapshot, report, files, begin_store, clear_seen>>
histVars == <<enqueued, dequeued, req_time, cleared>>

vars == <<envVars, prodVars, queueVars, dataVars, trackVars, workerVars,
          uiVars, lifeVars, exportVars, histVars>>

\* ----------------------------------------------------------------- helpers
Range(s) == { s[i] : i \in DOMAIN s }

\* datetime.datetime.now(): the clock never goes back; it may have advanced
\* since it was last read.
Now(t) == t \in {clock, clock + 1} /\ t \in Times

\* dict: d[k] = v
Put(d, k, v) == [x \in DOMAIN d \cup {k} |-> IF x = k THEN v ELSE d[x]]
\* dict: del d[k]
Del(d, k) == [x \in DOMAIN d \ {k} |-> d[x]]
EmptyDict == << >>

\* sum(1 for entry in self.log_data if entry[3] == url)
UrlCount(store, url) == Cardinality({ i \in DOMAIN store : store[i].url = url })

\* ------------------------------------------------------------------- Init
\* The state after registerExtenderCallbacks: empty store, queue and table,
\* worker started, backup timer armed.
NoReport == [what |-> "none", count |-> 0]
NoFile == [exists |-> FALSE, header |-> -1, rows |-> << >>, footer |-> -1, closed |-> FALSE]
Paths == { PathOf(e) : e \in Exporters }

Init ==
    /\ clock = 1
    /\ msg_url = [m \in Msgs |-> NoUrl]
    /\ ppc = [p \in Producers |-> "idle"]
    /\ pitem = [p \in Producers |-> NoItem]
    /\ processing_queue = << >>
    /\ queue_lock = Free
    /\ log_data = << >>
    /\ request_counter = 0
    /\ data_lock = Free
    /\ request_tracking = EmptyDict
    /\ tracking_lock = Free
    /\ wpc = "loop"
    /\ work_item = NoItem
    /\ w_time = 0
    /\ w_id = 0
    /\ w_count = 0
    /\ w_start = 0
    /\ w_ip = 0
    /\ cpc = "idle"
    /\ shutdown_flag = FALSE
    /\ backup_timer = "t1"
    /\ auto_backup_enabled = TRUE
    /\ backup_interval_seconds \in Intervals
    /\ last_backup_time = 0
    /\ timer_state = [k \in Timers |-> IF k = "t1" THEN "active" ELSE "unborn"]
    /\ tpc = [k \in Timers |-> "idle"]
    /\ t_now = [k \in Timers |-> 0]
    /\ spc = "idle"
    /\ xpc = [e \in Exporters |-> "idle"]
    /\ data_snapshot = [e \in Exporters |-> << >>]
    /\ report = [e \in Exporters |-> NoReport]
    /\ files = [p \in Paths |-> NoFile]
    /\ enqueued = << >>
    /\ dequeued = << >>
    /\ req_time = [m \in Msgs |-> 0]
    /\ cleared = FALSE
    /\ begin_store = [e \in Exporters |-> << >>]
    /\ clear_seen = [e \in Exporters |-> FALSE]

\* ------------------------------------------------------- processHttpMessage
\* Events whose delivery has begun, and the messages they belong to.
Started == Range(enqueued) \cup { pitem[p] : p \in { q \in Producers : ppc[q] # "idle" } }
Introduced == { e.msg : e \in Started }
NextMsg == Cardinality(Introduced) + 1
\* The URL of a message seen for the first time: one seen before, or the
\* first of UrlSeq not seen yet (URLs are told apart only by equality).
SeenUrls == { msg_url[m] : m \in Introduced }
NewUrls == SeenUrls \cup { UrlSeq[i] : i \in { j \in DOMAIN UrlSeq : j <= Cardinality(SeenUrls) + 1 } }

\* The traffic source calls processHttpMessage(toolFlag, messageIsRequest,
\* messageInfo) on thread p and the work item is built.
P_Begin(p, m, r) ==
    /\ ppc[p] = "idle"
    /\ pitem' = [pitem EXCEPT ![p] = [msg |-> m, is_request |-> r]]
    /\ ppc' = [ppc EXCEPT ![p] = "lock"]
    /\ UNCHANGED <<clock, queueVars, dataVars, trackVars, workerVars,
                   uiVars, lifeVars, exportVars, histVars>>

\* the request of a new message is delivered
P_CallRequest(p) ==
    /\ NextMsg <= NMsgs
    /\ \E u \in NewUrls : msg_url' = [msg_url EXCEPT ![NextMsg] = u]
    /\ P_Begin(p, NextMsg, TRUE)

\* the response of a message is delivered, after the call for its request
\* has returned
P_CallResponse(p) ==
    /\ \E m \in Introduced :
          /\ [msg |-> m, is_request |-> TRUE] \in Range(enqueued)
          /\ [msg |-> m, is_request |-> FALSE] \notin Started
          /\ P_Begin(p, m, FALSE)
    /\ UNCHANGED msg_url

\* a message is seen for the first time with its response: its request was
\* sent before the extension was loaded
P_CallOrphan(p) ==
    /\ NextMsg <= NMsgs
    /\ \E u \in NewUrls : msg_url' = [msg_url EXCEPT ![NextMsg] = u]
    /\ P_Begin(p, NextMsg, FALSE)

\* self.queue_lock.lock()
P_Lock(p) ==
    /\ ppc[p] = "lock"
    /\ queue_lock = Free
    /\ queue_lock' = p
    /\ ppc' = [ppc EXCEPT ![p] = "locked"]
    /\ UNCHANGED <<envVars, pitem, processing_queue, dataVars, trackVars, workerVars,
                   uiVars, lifeVars, exportVars, histVars>>

\* self.processing_queue.append(work_item); unlock
P_Append(p) ==
    /\ ppc[p] = "locked"
    /\ processing_queue' = Append(processing_queue, pitem[p])
    /\ enqueued' = Append(enqueued, pitem[p])
    /\ queue_lock' = Free
    /\ ppc' = [ppc EXCEPT ![p] = "idle"]
    /\ pitem' = [pitem EXCEPT ![p] = NoItem]
    /\ UNCHANGED <<envVars, dataVars, trackVars, workerVars, uiVars, lifeVars,
                   exportVars, dequeued, req_time, cleared>>

\* --------------------------------------------------------------- Worker.run
\* the mutation of W_Check: the loop does not test the flag
W_Check_ignore ==
    /\ wpc = "loop"
    /\ wpc' = "q_lock"
    /\ UNCHANGED <<envVars, prodVars, queueVars, dataVars, trackVars,
                   work_item, w_time, w_id, w_count, w_start, w_ip,
                   uiVars, lifeVars, exportVars, histVars>>

\* while not self.extender.shutdown_flag
W_Check ==
    /\ wpc = "loop"
    /\ wpc' = IF shutdown_flag THEN "stopped" ELSE "q_lock"
    /\ UNCHANGED <<envVars, prodVars, queueVars, dataVars, trackVars,
                   work_item, w_time, w_id, w_count, w_start, w_ip,
                   uiVars, lifeVars, exportVars, histVars>>

\* self.extender.queue_lock.lock()
W_LockQueue ==
    /\ wpc = "q_lock"
    /\ queue_lock = Free
    /\ queue_lock' = "worker"
    /\ wpc' = "q_pop"
    /\ UNCHANGED <<envVars, prodVars, processing_queue, dataVars, trackVars,
                   work_item, w_time, w_id, w_count, w_start, w_ip,
                   uiVars, lifeVars, exportVars, histVars>>

\* the mutation of W_Pop: pop() takes the newest item
W_Pop_last ==
    /\ wpc = "q_pop"
    /\ IF Len(processing_queue) > 0
       THEN /\ work_item' = processing_queue[Len(processing_queue)]
            /\ processing_queue' = SubSeq(processing_queue, 1, Len(processing_queue) - 1)
            /\ dequeued' = Append(dequeued, processing_queue[Len(processing_queue)])
            /\ wpc' = "process"
       ELSE /\ wpc' = "loop"
            /\ UNCHANGED <<work_item, processing_queue, dequeued>>
    /\ queue_lock' = Free
    /\ UNCHANGED <<envVars, prodVars, dataVars, trackVars,
                   w_time, w_id, w_count, w_start, w_ip,
                   uiVars, lifeVars, exportVars, enqueued, req_time, cleared>>

\* if len(queue) > 0: work_item = queue.pop(0); unlock; with no item the
\* worker sleeps 100 ms and tests the flag again
W_Pop ==
    /\ wpc = "q_pop"
    /\ IF Len(processing_queue) > 0
       THEN /\ work_item' = Head(processing_queue)
            /\ processing_queue' = Tail(processing_queue)
            /\ dequeued' = Append(dequeued, Head(processing_queue))
            /\ wpc' = "process"
       ELSE /\ wpc' = "loop"
            /\ UNCHANGED <<work_item, processing_queue, dequeued>>
    /\ queue_lock' = Free
    /\ UNCHANGED <<envVars, prodVars, dataVars, trackVars,
                   w_time, w_id, w_count, w_start, w_ip,
                   uiVars, lifeVars, exportVars, enqueued, req_time, cleared>>

\* _process_request_data up to the first lock of _handle_request (analyze the
\* request, count the insertion points, read start_time) or of
\* _handle_response (analyze request and response, read end_time)
W_Parse ==
    /\ wpc = "process"
    /\ \E t \in Times :
          /\ Now(t)
          /\ clock' = t
          /\ w_time' = t
    /\ w_ip' = IF work_item.is_request THEN Params(work_item.msg) ELSE 0
    /\ wpc' = IF work_item.is_request THEN "rq_lock_d" ELSE "rs_lock_d1"
    /\ UNCHANGED <<msg_url, prodVars, queueVars, dataVars, trackVars,
                   work_item, w_id, w_count, w_start,
                   uiVars, lifeVars, exportVars, histVars>>

\* _handle_request: self.data_lock.lock()
W_ReqLockData ==
    /\ wpc = "rq_lock_d"
    /\ data_lock = Free
    /\ data_lock' = "worker"
    /\ wpc' = "rq_read"
    /\ UNCHANGED <<envVars, prodVars, queueVars, log_data, request_counter, trackVars,
                   work_item, w_time, w_id, w_count, w_start, w_ip,
                   uiVars, lifeVars, exportVars, histVars>>

\* req_id = self.request_counter + 1; unlock
W_ReqRead ==
    /\ wpc = "rq_read"
    /\ w_id' = request_counter + 1
    /\ data_lock' = Free
    /\ wpc' = "rq_lock_t"
    /\ UNCHANGED <<envVars, prodVars, queueVars, log_data, request_counter, trackVars,
                   work_item, w_time, w_count, w_start, w_ip,
                   uiVars, lifeVars, exportVars, histVars>>

\* self.tracking_lock.lock()
W_ReqLockTrack ==
    /\ wpc = "rq_lock_t"
    /\ tracking_lock = Free
    /\ tracking_lock' = "worker"
    /\ wpc' = "rq_store"
    /\ UNCHANGED <<envVars, prodVars, queueVars, dataVars, request_tracking,
                   work_item, w_time, w_id, w_count, w_start, w_ip,
                   uiVars, lifeVars, exportVars, histVars>>

\* self.request_tracking[req_id] = {...}; unlock; the event is done.  The
\* entry's msg field is history: the message the entry was created for.
W_ReqStore ==
    /\ wpc = "rq_store"
    /\ request_tracking' = Put(request_tracking, w_id,
            [start_time |-> w_time, insertion_points |-> w_ip,
             url |-> msg_url[work_item.msg], msg |-> work_item.msg])
    /\ req_time' = [req_time EXCEPT ![work_item.msg] = w_time]
    /\ tracking_lock' = Free
    /\ wpc' = "loop"
    /\ work_item' = NoItem
    /\ w_time' = 0
    /\ w_id' = 0
    /\ w_ip' = 0
    /\ UNCHANGED <<envVars, prodVars, queueVars, dataVars, w_count, w_start,
                   uiVars, lifeVars, exportVars, enqueued, dequeued, cleared>>

\* _handle_response: self.data_lock.lock()
W_RespLockData1 ==
    /\ wpc = "rs_lock_d1"
    /\ data_lock = Free
    /\ data_lock' = "worker"
    /\ wpc' = "rs_incr"
    /\ UNCHANGED <<envVars, prodVars, queueVars, log_data, request_counter, trackVars,
                   work_item, w_time, w_id, w_count, w_start, w_ip,
                   uiVars, lifeVars, exportVars, histVars>>

\* the mutation of W_RespIncr: the serial is read without being consumed
W_RespIncr_noinc ==
    /\ wpc = "rs_incr"
    /\ request_counter' = request_counter
    /\ w_id' = request_counter + 1
    /\ w_count' = UrlCount(log_data, msg_url[work_item.msg]) + 1
    /\ data_lock' = Free
    /\ wpc' = "rs_lock_t"
    /\ UNCHANGED <<envVars, prodVars, queueVars, log_data, trackVars,
                   work_item, w_time, w_start, w_ip,
                   uiVars, lifeVars, exportVars, histVars>>

\* self.request_counter += 1; current_id = self.request_counter;
\* request_count = sum(...) + 1; unlock
W_RespIncr ==
    /\ wpc = "rs_incr"
    /\ request_counter' = request_counter + 1
    /\ w_id' = request_counter + 1
    /\ w_count' = UrlCount(log_data, msg_url[work_item.msg]) + 1
    /\ data_lock' = Free
    /\ wpc' = "rs_lock_t"
    /\ UNCHANGED <<envVars, prodVars, queueVars, log_data, trackVars,
                   work_item, w_time, w_start, w_ip,
                   uiVars, lifeVars, exportVars, histVars>>

\* self.tracking_lock.lock()
W_RespLockTrack ==
    /\ wpc = "rs_lock_t"
    /\ tracking_lock = Free
    /\ tracking_lock' = "worker"
    /\ wpc' = "rs_track"
    /\ UNCHANGED <<envVars, prodVars, queueVars, dataVars, request_tracking,
                   work_item, w_time, w_id, w_count, w_start, w_ip,
                   uiVars, lifeVars, exportVars, histVars>>

\* the mutation of W_RespTrack: the entry is read and not deleted
W_RespTrack_keep ==
    /\ wpc = "rs_track"
    /\ IF w_id \in DOMAIN request_tracking
       THEN /\ w_start' = request_tracking[w_id].start_time
            /\ w_ip' = request_tracking[w_id].insertion_points
       ELSE /\ w_start' = w_time
            /\ w_ip' = 0
    /\ UNCHANGED request_tracking
    /\ tracking_lock' = Free
    /\ wpc' = "rs_lock_d2"
    /\ UNCHANGED <<envVars, prodVars, queueVars, dataVars,
                   work_item, w_time, w_id, w_count,
                   uiVars, lifeVars, exportVars, histVars>>

\* tracking = self.request_tracking.get(current_id, {}); start_time and
\* insertion_points from it or the defaults; del the entry; unlock
W_RespTrack ==
    /\ wpc = "rs_track"
    /\ IF w_id \in DOMAIN request_tracking
       THEN /\ w_start' = request_tracking[w_id].start_time
            /\ w_ip' = request_tracking[w_id].insertion_points
            /\ request_tracking' = Del(request_tracking, w_id)
       ELSE /\ w_start' = w_time
            /\ w_ip' = 0
            /\ UNCHANGED request_tracking
    /\ tracking_lock' = Free
    /\ wpc' = "rs_lock_d2"
    /\ UNCHANGED <<envVars, prodVars, queueVars, dataVars,
                   work_item, w_time, w_id, w_count,
                   uiVars, lifeVars, exportVars, histVars>>

\* self.data_lock.lock()
W_RespLockData2 ==
    /\ wpc = "rs_lock_d2"
    /\ data_lock = Free
    /\ data_lock' = "worker"
    /\ wpc' = "rs_append"
    /\ UNCHANGED <<envVars, prodVars, queueVars, log_data, request_counter, trackVars,
                   work_item, w_time, w_id, w_count, w_start, w_ip,
                   uiVars, lifeVars, exportVars, histVars>>

\* The LogRecord _handle_response builds; msg is history (the message the
\* record is for), the other fields are the ten columns.
LogRecord(m, id, count, ip, start, end) ==
    [serial |-> id, msg |-> m, host |-> Host(m), method |-> Method(m),
     url |-> msg_url[m], status |-> StatusOf(m), tool |-> ToolName(m),
     request_count |-> count, insertion_points |-> ip,
     start_time |-> start, end_time |-> end]

\* self.log_data.append([...]); unlock; the event is done
W_RespAppend ==
    /\ wpc = "rs_append"
    /\ log_data' = Append(log_data,
            LogRecord(work_item.msg, w_id, w_count, w_ip, w_start, w_time))
    /\ cleared' = FALSE
    /\ data_lock' = Free
    /\ wpc' = "loop"
    /\ work_item' = NoItem
    /\ w_time' = 0
    /\ w_id' = 0
    /\ w_count' = 0
    /\ w_start' = 0
    /\ w_ip' = 0
    /\ req_time' = [req_time EXCEPT ![work_item.msg] = 0]
    /\ UNCHANGED <<envVars, prodVars, queueVars, request_counter, trackVars,
                   uiVars, lifeVars, exportVars, enqueued, dequeued>>

Worker ==
    \/ W_Check
    \/ W_LockQueue
    \/ W_Pop
    \/ W_Parse
    \/ W_ReqLockData
    \/ W_ReqRead
    \/ W_ReqLockTrack
    \/ W_ReqStore
    \/ W_RespLockData1
    \/ W_RespIncr
    \/ W_RespLockTrack
    \/ W_RespTrack
    \/ W_RespLockData2
    \/ W_RespAppend

\* the mutation of W_ParseFail: the exception ends the worker thread
W_ParseFail_stop ==
    /\ wpc = "process"
    /\ wpc' = "stopped"
    /\ work_item' = NoItem
    /\ UNCHANGED <<envVars, prodVars, queueVars, dataVars, trackVars,
                   w_time, w_id, w_count, w_start, w_ip,
                   uiVars, lifeVars, exportVars, histVars>>

\* the mutation of W_ParseFail: the exception is raised after the serial
\* counter has been incremented
W_ParseFail_incr ==
    /\ wpc = "process"
    /\ wpc' = "loop"
    /\ work_item' = NoItem
    /\ request_counter' = IF work_item.is_request THEN request_counter ELSE request_counter + 1
    /\ UNCHANGED <<envVars, prodVars, queueVars, log_data, data_lock, trackVars,
                   w_time, w_id, w_count, w_start, w_ip,
                   uiVars, lifeVars, exportVars, histVars>>

\* an accessor of the message handle raises in _handle_request or
\* _handle_response (analyzeRequest, getUrl, getHttpService().getHost(), all
\* before the first lock): _process_request_data catches it, prints
\* "Processing error" and returns; the worker goes round its loop
W_ParseFail ==
    /\ wpc = "process"
    /\ wpc' = "loop"
    /\ work_item' = NoItem
    /\ UNCHANGED <<envVars, prodVars, queueVars, dataVars, trackVars,
                   w_time, w_id, w_count, w_start, w_ip,
                   uiVars, lifeVars, exportVars, histVars>>

\* ---------------------------------------------------------------- clear_logs
\* The UI thread runs one button listener at a time.
UiIdle == cpc = "idle" /\ spc = "idle" /\ \A e \in UiExporters : xpc[e] = "idle"

\* the positions of an exporter between the start of its call and its snapshot
BeforeSnapshot == {"join", "cancel", "hd_lock", "hd_read", "choose", "w_lock", "w_snap"}

\* the Clear Logs button is pressed: self.data_lock.lock()
C_Click ==
    /\ UiIdle
    /\ data_lock = Free
    /\ data_lock' = "ui"
    /\ cpc' = "c_count"
    /\ UNCHANGED <<envVars, prodVars, queueVars, log_data, request_counter, trackVars,
                   workerVars, lifeVars, exportVars, histVars>>

\* count = len(self.log_data); unlock; the confirm dialog opens (count is
\* only shown in it)
C_Count ==
    /\ cpc = "c_count"
    /\ data_lock' = Free
    /\ cpc' = "confirm"
    /\ UNCHANGED <<envVars, prodVars, queueVars, log_data, request_counter, trackVars,
                   workerVars, lifeVars, exportVars, histVars>>

\* the user answers the dialog
C_Confirm ==
    /\ cpc = "confirm"
    /\ \E yes \in BOOLEAN : cpc' = IF yes THEN "c_lock_d" ELSE "idle"
    /\ UNCHANGED <<envVars, prodVars, queueVars, dataVars, trackVars,
                   workerVars, lifeVars, exportVars, histVars>>

\* self.data_lock.lock()
C_LockData ==
    /\ cpc = "c_lock_d"
    /\ data_lock = Free
    /\ data_lock' = "ui"
    /\ cpc' = "c_reset_d"
    /\ UNCHANGED <<envVars, prodVars, queueVars, log_data, request_counter, trackVars,
                   workerVars, lifeVars, exportVars, histVars>>

\* the mutation of C_ResetData: the data lock is kept while the tracking
\* lock is taken
C_ResetData_hold ==
    /\ cpc = "c_reset_d"
    /\ log_data' = << >>
    /\ request_counter' = 0
    /\ data_lock' = data_lock
    /\ cpc' = "c_lock_t"
    /\ clear_seen' = [e \in Exporters |-> xpc[e] \in BeforeSnapshot]
    /\ begin_store' = [e \in Exporters |-> << >>]
    /\ UNCHANGED <<envVars, prodVars, queueVars, trackVars,
                   workerVars, lifeVars, xpc, data_snapshot,
                   report, files, histVars>>

\* self.log_data = []; self.request_counter = 0; unlock
C_ResetData ==
    /\ cpc = "c_reset_d"
    /\ log_data' = << >>
    /\ request_counter' = 0
    /\ data_lock' = Free
    /\ cpc' = "c_lock_t"
    /\ clear_seen' = [e \in Exporters |-> xpc[e] \in BeforeSnapshot]
    /\ begin_store' = [e \in Exporters |-> << >>]
    /\ UNCHANGED <<envVars, prodVars, queueVars, trackVars,
                   workerVars, lifeVars, xpc, data_snapshot,
                   report, files, histVars>>

\* self.tracking_lock.lock()
C_LockTrack ==
    /\ cpc = "c_lock_t"
    /\ tracking_lock = Free
    /\ tracking_lock' = "ui"
    /\ cpc' = "c_reset_t"
    /\ UNCHANGED <<envVars, prodVars, queueVars, dataVars, request_tracking,
                   workerVars, lifeVars, exportVars, histVars>>

\* self.request_tracking = {}; unlock; clear_logs returns
C_ResetTrack ==
    /\ cpc = "c_reset_t"
    /\ request_tracking' = EmptyDict
    /\ tracking_lock' = Free
    /\ cpc' = "idle"
    /\ cleared' = TRUE
    /\ UNCHANGED <<envVars, prodVars, queueVars, dataVars,
                   workerVars, lifeVars, exportVars, enqueued, dequeued, req_time>>

Clear ==
    \/ C_Click
    \/ C_Count
    \/ C_Confirm
    \/ C_LockData
    \/ C_ResetData
    \/ C_LockTrack
    \/ C_ResetTrack

\* ---------------------------------------------------------- _write_full_csv
\* str(col).replace(",", ";").replace("\n", " ").replace("\r", " ")
Sanitize(text) ==
    [i \in DOMAIN text |->
        CASE text[i] = "," -> ";"
          [] text[i] = "\n" -> " "
          [] text[i] = "\r" -> " "
          [] OTHER -> text[i]]

\* one data row of the file: the ten columns of a record, sanitised
CsvRow(rec) ==
    << rec.serial, Sanitize(rec.host), Sanitize(rec.method), Sanitize(rec.url),
       Sanitize(rec.status), Sanitize(rec.tool), rec.request_count,
       rec.insertion_points, rec.start_time, rec.end_time >>

CsvRows(store) == [i \in DOMAIN store |-> CsvRow(store[i])]

\* the callers that test has_data before they call _write_full_csv
HasDataCallers == {"exp", "exit"} \cup Timers

\* backup_now is called (the Backup Now button): the path is computed and
\* _write_full_csv entered.  export_csv_manual is called (the Export CSV
\* button): it first takes the data lock to test has_data.
X_Start(e) ==
    /\ e \in UiExporters
    /\ UiIdle
    /\ xpc' = [xpc EXCEPT ![e] = IF e \in HasDataCallers THEN "hd_lock" ELSE "w_lock"]
    /\ data_snapshot' = [data_snapshot EXCEPT ![e] = << >>]
    /\ report' = [report EXCEPT ![e] = NoReport]
    /\ begin_store' = [begin_store EXCEPT ![e] = log_data]
    /\ clear_seen' = [clear_seen EXCEPT ![e] = FALSE]
    /\ UNCHANGED <<envVars, prodVars, queueVars, dataVars, trackVars, workerVars,
                   uiVars, lifeVars, files, histVars>>

\* has_data: self.data_lock.lock()
X_LockHas(e) ==
    /\ xpc[e] = "hd_lock"
    /\ data_lock = Free
    /\ data_lock' = ThreadOf(e)
    /\ xpc' = [xpc EXCEPT ![e] = "hd_read"]
    /\ UNCHANGED <<envVars, prodVars, queueVars, log_data, request_counter, trackVars,
                   workerVars, uiVars, lifeVars, data_snapshot,
                   report, files, begin_store, clear_seen, histVars>>

\* has_data = len(self.log_data) > 0; unlock.  Without data
\* export_csv_manual shows "No data to export!", extensionUnloaded prints
\* "Extension unloaded (no data to save)" and _auto_backup returns in
\* silence; with data export_csv_manual opens the file chooser and the
\* others go on to _write_full_csv.
X_HasData(e) ==
    /\ xpc[e] = "hd_read"
    /\ data_lock' = Free
    /\ IF Len(log_data) > 0
       THEN /\ xpc' = [xpc EXCEPT ![e] = IF e = "exp" THEN "choose" ELSE "w_lock"]
            /\ UNCHANGED report
       ELSE /\ xpc' = [xpc EXCEPT ![e] = IF e = "exit" THEN "done" ELSE "idle"]
            /\ report' = [report EXCEPT ![e] =
                    IF e \in Timers THEN @ ELSE [what |-> "nodata", count |-> 0]]
    /\ UNCHANGED <<envVars, prodVars, queueVars, log_data, request_counter, trackVars,
                   workerVars, uiVars, lifeVars, data_snapshot,
                   files, begin_store, clear_seen, histVars>>

\* export_csv_manual: the user approves a path in the file chooser or cancels
X_Choose(e) ==
    /\ xpc[e] = "choose"
    /\ \E approve \in BOOLEAN :
          xpc' = [xpc EXCEPT ![e] = IF approve THEN "w_lock" ELSE "idle"]
    /\ UNCHANGED <<envVars, prodVars, queueVars, dataVars, trackVars,
                   workerVars, uiVars, lifeVars, data_snapshot,
                   report, files, begin_store, clear_seen, histVars>>

\* _write_full_csv: self.data_lock.lock()
X_LockSnap(e) ==
    /\ xpc[e] = "w_lock"
    /\ data_lock = Free
    /\ data_lock' = ThreadOf(e)
    /\ xpc' = [xpc EXCEPT ![e] = "w_snap"]
    /\ UNCHANGED <<envVars, prodVars, queueVars, log_data, request_counter, trackVars,
                   workerVars, uiVars, lifeVars, data_snapshot,
                   report, files, begin_store, clear_seen, histVars>>

\* What the caller does with the result of _write_full_csv.  True:
\* backup_now, export_csv_manual and extensionUnloaded go on to count the
\* store.  False: backup_now and export_csv_manual show "... failed! Check
\* console for errors."; _auto_backup returns in silence;
\* extensionUnloaded does not look at the result and goes on to count.
AfterWrite(e, result) ==
    IF result \/ e = "exit"
    THEN /\ xpc' = [xpc EXCEPT ![e] = "cnt_lock"]
         /\ UNCHANGED report
    ELSE /\ xpc' = [xpc EXCEPT ![e] = "idle"]
         /\ report' = [report EXCEPT ![e] =
                 IF e \in Timers THEN @ ELSE [what |-> "fail", count |-> 0]]

\* the mutation of X_Snapshot: the data lock is kept across the file write
X_Snapshot_keep(e) ==
    /\ xpc[e] = "w_snap"
    /\ data_lock' = IF Len(log_data) = 0 THEN Free ELSE data_lock
    /\ IF Len(log_data) = 0
       THEN /\ AfterWrite(e, FALSE)
            /\ UNCHANGED data_snapshot
       ELSE /\ data_snapshot' = [data_snapshot EXCEPT ![e] = log_data]
            /\ xpc' = [xpc EXCEPT ![e] = "w_open"]
            /\ UNCHANGED report
    /\ begin_store' = [begin_store EXCEPT ![e] = << >>]
    /\ clear_seen' = [clear_seen EXCEPT ![e] = FALSE]
    /\ UNCHANGED <<envVars, prodVars, queueVars, log_data, request_counter, trackVars,
                   workerVars, uiVars, lifeVars, files, histVars>>

\* if not self.log_data: return False (finally: unlock);
\* data_snapshot = list(self.log_data); unlock
X_Snapshot(e) ==
    /\ xpc[e] = "w_snap"
    /\ data_lock' = Free
    /\ IF Len(log_data) = 0
       THEN /\ AfterWrite(e, FALSE)
            /\ UNCHANGED data_snapshot
       ELSE /\ data_snapshot' = [data_snapshot EXCEPT ![e] = log_data]
            /\ xpc' = [xpc EXCEPT ![e] = "w_open"]
            /\ UNCHANGED report
    /\ begin_store' = [begin_store EXCEPT ![e] = << >>]
    /\ clear_seen' = [clear_seen EXCEPT ![e] = FALSE]
    /\ UNCHANGED <<envVars, prodVars, queueVars, log_data, request_counter, trackVars,
                   workerVars, uiVars, lifeVars, files, histVars>>

\* FileOutputStream(filepath, False): the file is created or truncated
X_Open(e) ==
    /\ xpc[e] = "w_open"
    /\ files' = [files EXCEPT ![PathOf(e)] =
            [exists |-> TRUE, header |-> -1, rows |-> << >>, footer |-> -1, closed |-> FALSE]]
    /\ xpc' = [xpc EXCEPT ![e] = "w_header"]
    /\ UNCHANGED <<envVars, prodVars, queueVars, dataVars, trackVars,
                   workerVars, uiVars, lifeVars, data_snapshot,
                   report, begin_store, clear_seen, histVars>>

\* the header metadata ("# Total Requests: %d" % len(data_snapshot)) and the
\* column headers
X_Header(e) ==
    /\ xpc[e] = "w_header"
    /\ files' = [files EXCEPT ![PathOf(e)].header = Len(data_snapshot[e])]
    /\ xpc' = [xpc EXCEPT ![e] = "w_rows"]
    /\ UNCHANGED <<envVars, prodVars, queueVars, dataVars, trackVars,
                   workerVars, uiVars, lifeVars, data_snapshot,
                   report, begin_store, clear_seen, histVars>>

\* for row in data_snapshot: one more row is written
X_Row(e) ==
    /\ xpc[e] = "w_rows"
    /\ Len(files[PathOf(e)].rows) < Len(data_snapshot[e])
    /\ files' = [files EXCEPT ![PathOf(e)].rows =
            Append(@, CsvRow(data_snapshot[e][Len(files[PathOf(e)].rows) + 1]))]
    /\ UNCHANGED <<envVars, prodVars, queueVars, dataVars, trackVars,
                   workerVars, uiVars, lifeVars, xpc, data_snapshot,
                   report, begin_store, clear_seen, histVars>>

\* the mutation of X_Footer: the footer counts the live store
X_Footer_live(e) ==
    /\ xpc[e] = "w_rows"
    /\ Len(files[PathOf(e)].rows) >= Len(data_snapshot[e])
    /\ files' = [files EXCEPT ![PathOf(e)].footer = Len(log_data), ![PathOf(e)].closed = TRUE]
    /\ AfterWrite(e, TRUE)
    /\ UNCHANGED <<envVars, prodVars, queueVars, dataVars, trackVars,
                   workerVars, uiVars, lifeVars, data_snapshot,
                   begin_store, clear_seen, histVars>>

\* after the last row: the footer metadata ("# Total Requests Logged: %d" %
\* len(data_snapshot)), flush, close, return True
X_Footer(e) ==
    /\ xpc[e] = "w_rows"
    /\ Len(files[PathOf(e)].rows) >= Len(data_snapshot[e])
    /\ files' = [files EXCEPT ![PathOf(e)].footer = Len(data_snapshot[e]), ![PathOf(e)].closed = TRUE]
    /\ AfterWrite(e, TRUE)
    /\ UNCHANGED <<envVars, prodVars, queueVars, dataVars, trackVars,
                   workerVars, uiVars, lifeVars, data_snapshot,
                   begin_store, clear_seen, histVars>>

\* count: self.data_lock.lock()
X_LockCount(e) ==
    /\ xpc[e] = "cnt_lock"
    /\ data_lock = Free
    /\ data_lock' = ThreadOf(e)
    /\ xpc' = [xpc EXCEPT ![e] = "cnt_read"]
    /\ UNCHANGED <<envVars, prodVars, queueVars, log_data, request_counter, trackVars,
                   workerVars, uiVars, lifeVars, data_snapshot,
                   report, files, begin_store, clear_seen, histVars>>

\* count = len(self.log_data); unlock; the success message with count and
\* path is shown (backup_now, export_csv_manual), printed ("Exit backup
\* completed: %d requests saved to %s", extensionUnloaded) or appended to
\* the status area ("Auto-backup: %d requests saved", _auto_backup)
X_Count(e) ==
    /\ xpc[e] = "cnt_read"
    /\ data_lock' = Free
    /\ report' = [report EXCEPT ![e] = [what |-> "ok", count |-> Len(log_data)]]
    /\ xpc' = [xpc EXCEPT ![e] = IF e = "exit" THEN "done" ELSE "idle"]
    /\ data_snapshot' = [data_snapshot EXCEPT ![e] = << >>]
    /\ UNCHANGED <<envVars, prodVars, queueVars, log_data, request_counter, trackVars,
                   workerVars, uiVars, lifeVars,
                   files, begin_store, clear_seen, histVars>>

\* what the file holds when the writer is abandoned without flush or close:
\* the text written so far, or nothing of it if the BufferedWriter never
\* flushed its buffer
Abandoned(f) ==
    { f, [exists |-> TRUE, header |-> -1, rows |-> << >>, footer |-> -1, closed |-> FALSE] }

\* the mutation of X_IOFail: the handler returns True
X_IOFail_true(e) ==
    /\ xpc[e] \in {"w_open", "w_header", "w_rows"}
    /\ IF xpc[e] = "w_open"
       THEN UNCHANGED files
       ELSE \E f \in Abandoned(files[PathOf(e)]) : files' = [files EXCEPT ![PathOf(e)] = f]
    /\ AfterWrite(e, TRUE)
    /\ data_snapshot' = [data_snapshot EXCEPT ![e] = IF e = "exit" THEN @ ELSE << >>]
    /\ UNCHANGED <<envVars, prodVars, queueVars, dataVars, trackVars,
                   workerVars, uiVars, lifeVars,
                   begin_store, clear_seen, histVars>>

\* an I/O error inside the try block of _write_full_csv: the constructor of
\* FileOutputStream throws (no file is opened), or a write, the flush or the
\* close throws (the file stays as it is, never closed).  except Exception:
\* "Export failed" is printed and False returned
X_IOFail(e) ==
    /\ xpc[e] \in {"w_open", "w_header", "w_rows"}
    /\ IF xpc[e] = "w_open"
       THEN UNCHANGED files
       ELSE \E f \in Abandoned(files[PathOf(e)]) : files' = [files EXCEPT ![PathOf(e)] = f]
    /\ AfterWrite(e, FALSE)
    /\ data_snapshot' = [data_snapshot EXCEPT ![e] = IF e = "exit" THEN @ ELSE << >>]
    /\ UNCHANGED <<envVars, prodVars, queueVars, dataVars, trackVars,
                   workerVars, uiVars, lifeVars,
                   begin_store, clear_seen, histVars>>

\* the steps every caller of _write_full_csv shares
Export(e) ==
    \/ X_LockSnap(e)
    \/ X_Snapshot(e)
    \/ X_Open(e)
    \/ X_Header(e)
    \/ X_Row(e)
    \/ X_Footer(e)
    \/ X_LockCount(e)
    \/ X_Count(e)

\* --------------------------------------------------------- extensionUnloaded
\* self.shutdown_flag = True
TD_Start ==
    /\ xpc["exit"] = "idle"
    /\ shutdown_flag' = TRUE
    /\ xpc' = [xpc EXCEPT !["exit"] = "join"]
    /\ begin_store' = [begin_store EXCEPT !["exit"] = log_data]
    /\ clear_seen' = [clear_seen EXCEPT !["exit"] = FALSE]
    /\ UNCHANGED <<envVars, prodVars, queueVars, dataVars, trackVars, workerVars,
                   uiVars, backup_timer, schedVars, data_snapshot, report,
                   files, histVars>>

\* self.worker_thread.join(5000): returns when the worker has stopped or
\* when the five seconds are over, whichever comes first
TD_Join ==
    /\ xpc["exit"] = "join"
    /\ xpc' = [xpc EXCEPT !["exit"] = "cancel"]
    /\ UNCHANGED <<envVars, prodVars, queueVars, dataVars, trackVars, workerVars,
                   uiVars, lifeVars, data_snapshot, report,
                   files, begin_store, clear_seen, histVars>>

\* if self.backup_timer: self.backup_timer.cancel(); then has_data is tested
TD_Cancel ==
    /\ xpc["exit"] = "cancel"
    /\ timer_state' = [timer_state EXCEPT ![backup_timer] = "cancelled"]
    /\ xpc' = [xpc EXCEPT !["exit"] = "hd_lock"]
    /\ UNCHANGED <<envVars, prodVars, queueVars, dataVars, trackVars, workerVars,
                   uiVars, shutdown_flag, backup_timer, auto_backup_enabled,
                   backup_interval_seconds, last_backup_time, tpc, t_now, spc,
                   data_snapshot, report,
                   files, begin_store, clear_seen, histVars>>

Teardown ==
    \/ TD_Start
    \/ TD_Join
    \/ TD_Cancel
    \/ X_LockHas("exit")
    \/ X_HasData("exit")
    \/ Export("exit")

\* ------------------------------------------------------------ save_settings
\* the Save Settings button is pressed:
\* self.auto_backup_enabled = self.enable_backup.isSelected()
S_Enable ==
    /\ UiIdle
    /\ \E b \in BOOLEAN : auto_backup_enabled' = b
    /\ spc' = "interval"
    /\ UNCHANGED <<envVars, prodVars, queueVars, dataVars, trackVars, workerVars,
                   uiVars, shutdown_flag, backup_timer, backup_interval_seconds,
                   last_backup_time, timer_state, tpc, t_now, exportVars, histVars>>

\* self.backup_interval_seconds = int(self.interval_spinner.getValue())
S_Interval ==
    /\ spc = "interval"
    /\ \E i \in Intervals : backup_interval_seconds' = i
    /\ spc' = "cancel"
    /\ UNCHANGED <<envVars, prodVars, queueVars, dataVars, trackVars, workerVars,
                   uiVars, shutdown_flag, backup_timer, auto_backup_enabled,
                   last_backup_time, timer_state, tpc, t_now, exportVars, histVars>>

\* the mutation of S_Cancel: the previous timer is left running
S_Cancel_skip ==
    /\ spc = "cancel"
    /\ spc' = "arm"
    /\ UNCHANGED <<envVars, prodVars, queueVars, dataVars, trackVars, workerVars,
                   uiVars, shutdown_flag, backup_timer, auto_backup_enabled,
                   backup_interval_seconds, last_backup_time, timer_state, tpc,
                   t_now, exportVars, histVars>>

\* _start_backup_scheduler: if self.backup_timer: self.backup_timer.cancel().
\* A task that is running goes on to its end; no later one starts.
S_Cancel ==
    /\ spc = "cancel"
    /\ timer_state' = [timer_state EXCEPT ![backup_timer] = "cancelled"]
    /\ spc' = "arm"
    /\ UNCHANGED <<envVars, prodVars, queueVars, dataVars, trackVars, workerVars,
                   uiVars, shutdown_flag, backup_timer, auto_backup_enabled,
                   backup_interval_seconds, last_backup_time, tpc, t_now,
                   exportVars, histVars>>

\* the names a new Timer can take: never used, or cancelled with its thread
\* at rest
FreeTimers ==
    { k \in Timers : timer_state[k] = "unborn" \/ (timer_state[k] = "cancelled" /\ tpc[k] = "idle") }

\* if not self.auto_backup_enabled: return; self.backup_timer = Timer(...);
\* self.backup_timer.schedule(Task(self), delay, period); the status lines
\* and the "Settings saved successfully!" dialog end save_settings
S_Arm ==
    /\ spc = "arm"
    /\ IF auto_backup_enabled
       THEN /\ FreeTimers # {}
            /\ LET k == CHOOSE x \in FreeTimers : x = "t1" \/ "t1" \notin FreeTimers IN
                  /\ backup_timer' = k
                  /\ timer_state' = [timer_state EXCEPT ![k] = "active"]
       ELSE UNCHANGED <<backup_timer, timer_state>>
    /\ spc' = "idle"
    /\ UNCHANGED <<envVars, prodVars, queueVars, dataVars, trackVars, workerVars,
                   uiVars, shutdown_flag, auto_backup_enabled,
                   backup_interval_seconds, last_backup_time, tpc, t_now,
                   exportVars, histVars>>

Settings ==
    \/ S_Enable
    \/ S_Interval
    \/ S_Cancel
    \/ S_Arm

\* ----------------------------------------------------------------- Task.run
\* the thread of timer k starts a run of the task (the initial delay or the
\* period is over and the timer is not cancelled):
\* if self.extender.auto_backup_enabled
T_Fire(k) ==
    /\ timer_state[k] = "active"
    /\ tpc[k] = "idle"
    /\ tpc' = [tpc EXCEPT ![k] = IF auto_backup_enabled THEN "check" ELSE "idle"]
    /\ UNCHANGED <<envVars, prodVars, queueVars, dataVars, trackVars, workerVars,
                   uiVars, shutdown_flag, backup_timer, auto_backup_enabled,
                   backup_interval_seconds, last_backup_time, timer_state, t_now,
                   spc, exportVars, histVars>>

\* current_time = System.currentTimeMillis() / 1000;
\* if (current_time - last_backup_time) >= backup_interval_seconds:
\* _auto_backup() is entered
T_Check(k) ==
    /\ tpc[k] = "check"
    /\ \E t \in Times :
          /\ Now(t)
          /\ clock' = t
          /\ IF (Epoch + t) - last_backup_time >= backup_interval_seconds
             THEN /\ t_now' = [t_now EXCEPT ![k] = Epoch + t]
                  /\ tpc' = [tpc EXCEPT ![k] = "backup"]
                  /\ xpc' = [xpc EXCEPT ![k] = "hd_lock"]
                  /\ report' = [report EXCEPT ![k] = NoReport]
             ELSE /\ tpc' = [tpc EXCEPT ![k] = "idle"]
                  /\ UNCHANGED <<t_now, xpc, report>>
    /\ UNCHANGED <<msg_url, prodVars, queueVars, dataVars, trackVars, workerVars,
                   uiVars, shutdown_flag, backup_timer, auto_backup_enabled,
                   backup_interval_seconds, last_backup_time, timer_state, spc,
                   data_snapshot, files, begin_store, clear_seen, histVars>>

\* _auto_backup has returned: self.extender.last_backup_time = current_time
T_SetLast(k) ==
    /\ tpc[k] = "backup"
    /\ xpc[k] = "idle"
    /\ last_backup_time' = t_now[k]
    /\ tpc' = [tpc EXCEPT ![k] = "idle"]
    /\ t_now' = [t_now EXCEPT ![k] = 0]
    /\ UNCHANGED <<envVars, prodVars, queueVars, dataVars, trackVars, workerVars,
                   uiVars, shutdown_flag, backup_timer, auto_backup_enabled,
                   backup_interval_seconds, timer_state, spc, exportVars, histVars>>

\* a run of the task on the thread of timer k, _auto_backup included
Tick(k) ==
    \/ T_Fire(k)
    \/ T_Check(k)
    \/ X_LockHas(k)
    \/ X_HasData(k)
    \/ Export(k)
    \/ T_SetLast(k)

\* ------------------------------------------------------------ specifications
\* the ingestion pipeline: two producer threads and the worker
NextIngest ==
    \/ \E p \in Producers : P_CallRequest(p)
    \/ \E p \in Producers : P_CallResponse(p)
    \/ \E p \in Producers : P_CallOrphan(p)
    \/ \E p \in Producers : P_Lock(p)
    \/ \E p \in Producers : P_Append(p)
    \/ Worker

SpecIngest == Init /\ [][NextIngest]_vars

\* the pipeline with the UI's clear_logs running beside the worker
NextClear ==
    \/ P_CallRequest("p1")
    \/ P_CallResponse("p1")
    \/ P_CallOrphan("p1")
    \/ P_Lock("p1")
    \/ P_Append("p1")
    \/ Worker
    \/ Clear

SpecClear == Init /\ [][NextClear]_vars

\* the pipeline (traffic seen from its requests on) and clear_logs with the
\* teardown hook running beside them
NextTeardown ==
    \/ P_CallRequest("p1")
    \/ P_CallResponse("p1")
    \/ P_Lock("p1")
    \/ P_Append("p1")
    \/ Worker
    \/ Clear
    \/ Teardown

SpecTeardown == Init /\ [][NextTeardown]_vars

\* one producer, the worker, and the two export buttons of the UI with
\* failing I/O
ManualExport(e) ==
    \/ X_Start(e)
    \/ X_LockHas(e)
    \/ X_HasData(e)
    \/ X_Choose(e)
    \/ Export(e)
    \/ X_IOFail(e)

NextExport ==
    \/ P_CallRequest("p1")
    \/ P_CallResponse("p1")
    \/ P_Lock("p1")
    \/ P_Append("p1")
    \/ Worker
    \/ ManualExport("bak")
    \/ ManualExport("exp")

SpecExport == Init /\ [][NextExport]_vars

\* one producer and the worker, with events whose processing raises.  The
\* threads are scheduled: the worker keeps running and a producer that has
\* entered processHttpMessage runs to its end.
NextFaulty ==
    \/ P_CallRequest("p1")
    \/ P_CallResponse("p1")
    \/ P_CallOrphan("p1")
    \/ P_Lock("p1")
    \/ P_Append("p1")
    \/ Worker
    \/ W_ParseFail

SpecFaulty ==
    /\ Init
    /\ [][NextFaulty]_vars
    /\ WF_vars(Worker \/ W_ParseFail)
    /\ WF_vars(P_Lock("p1") \/ P_Append("p1"))

\* one message of traffic, the worker, the Save Settings button and the
\* threads of the timers
NextSched ==
    \/ (Introduced = {} /\ P_CallRequest("p1"))
    \/ P_CallResponse("p1")
    \/ P_Lock("p1")
    \/ P_Append("p1")
    \/ Worker
    \/ Settings
    \/ \E k \in Timers : Tick(k)

SpecSched == Init /\ [][NextSched]_vars

\* one message of traffic, the worker, the Save Settings button, the thread
\* of one timer and the unloading of the extension
NextShutdown ==
    \/ (Introduced = {} /\ P_CallRequest("p1"))
    \/ P_CallResponse("p1")
    \/ P_Lock("p1")
    \/ P_Append("p1")
    \/ Worker
    \/ Settings
    \/ Tick("t1")
    \/ Teardown

SpecShutdown == Init /\ [][NextShutdown]_vars

\* the pipeline and the teardown hook, every thread scheduled fairly: the
\* worker, the producer inside processHttpMessage, the thread of the hook
NextStop ==
    \/ P_CallRequest("p1")
    \/ P_CallResponse("p1")
    \/ P_CallOrphan("p1")
    \/ P_Lock("p1")
    \/ P_Append("p1")
    \/ Worker
    \/ Teardown

SpecStop ==
    /\ Init
    /\ [][NextStop]_vars
    /\ WF_vars(Worker)
    /\ WF_vars(P_Lock("p1") \/ P_Append("p1"))
    /\ WF_vars(Teardown)

\* the steps of clear_logs that follow the press of the button and the answer
\* to the dialog
ClearRun ==
    \/ C_Count
    \/ C_LockData
    \/ C_ResetData
    \/ C_LockTrack
    \/ C_ResetTrack

\* the threads that contend for the locks: the producer, the worker (an
\* accessor may raise in it), the UI thread in clear_logs and the thread of
\* the teardown hook, which runs the export (its file operations may raise);
\* a thread inside such a call is scheduled fairly and a lock that is free
\* again and again is obtained (ReentrantLock wakes its queued waiter on
\* unlock)
NextLocks ==
    \/ (Introduced = {} /\ P_CallRequest("p1"))
    \/ P_CallResponse("p1")
    \/ P_Lock("p1")
    \/ P_Append("p1")
    \/ Worker
    \/ W_ParseFail
    \/ Clear
    \/ Teardown
    \/ X_IOFail("exit")

SpecLocks ==
    /\ Init
    /\ [][NextLocks]_vars
    /\ SF_vars(Worker \/ W_ParseFail)
    /\ SF_vars(P_Lock("p1") \/ P_Append("p1"))
    /\ SF_vars(ClearRun)
    /\ SF_vars(xpc["exit"] # "idle" /\ Teardown)

\* -------------------------------------------------------------------- claims
Requests(m) == [msg |-> m, is_request |-> TRUE]
Responses(m) == [msg |-> m, is_request |-> FALSE]
IsPrefix(a, b) == Len(a) <= Len(b) /\ \A i \in DOMAIN a : a[i] = b[i]
\* the response events the worker has taken from the queue, in that order
RespOrder == SelectSeq(dequeued, LAMBDA ev : ~ev.is_request)
\* those of them whose processing is over
RespDone ==
    IF work_item # NoItem /\ ~work_item.is_request
    THEN SubSeq(RespOrder, 1, Len(RespOrder) - 1)
    ELSE RespOrder
\* no call is in progress, the queue is empty and the worker is between events
Drained ==
    /\ \A p \in Producers : ppc[p] = "idle"
    /\ processing_queue = << >>
    /\ work_item = NoItem
\* every message delivered so far came as a request followed by its response
PairsOnly ==
    \A m \in Introduced : Requests(m) \in Range(enqueued) /\ Responses(m) \in Range(enqueued)
\* the step appends a record to the store
Appends == Len(log_data') = Len(log_data) + 1
Appended == log_data'[Len(log_data')]

\* C1: without clear, shutdown or failing events, once N requests and their
\* N responses (each request enqueued before its response) have been drained,
\* the store holds exactly N records, the i-th with serial i, in the order
\* in which the responses were processed.
C1_PairsYieldDenseSerials ==
    (Drained /\ PairsOnly) =>
        /\ Len(log_data) = Cardinality(Introduced)
        /\ \A i \in DOMAIN log_data :
              /\ log_data[i].serial = i
              /\ log_data[i].msg = RespOrder[i].msg

\* all messages answered and drained, the second message's response first
C1_Witness ==
    /\ Drained
    /\ PairsOnly
    /\ Cardinality(Introduced) = NMsgs
    /\ Len(log_data) = NMsgs
    /\ log_data[1].msg = 2

\* C2: with producers calling processHttpMessage concurrently with each other
\* and with the worker, the events taken from the queue followed by the events
\* still in it are the events in the order their enqueue critical sections
\* completed, none twice; every response event whose processing is over has
\* exactly one record, in that order, and the i-th record has serial i.
C2_QueueIsFifoAndLossless ==
    /\ enqueued = dequeued \o processing_queue
    /\ \A i, j \in DOMAIN dequeued : dequeued[i] = dequeued[j] => i = j
    /\ Len(log_data) = Len(RespDone)
    /\ \A i \in DOMAIN log_data :
          /\ log_data[i].msg = RespDone[i].msg
          /\ log_data[i].serial = i

\* both producers are inside processHttpMessage waiting for the queue lock
\* while the worker holds it to take an event that is already queued
C2_Witness ==
    /\ \A p \in Producers : ppc[p] = "lock"
    /\ queue_lock = "worker"
    /\ Len(processing_queue) > 0
    /\ Len(dequeued) > 0

\* C3: when the request event of message m was processed before its response
\* event, the record finalized for m carries the start time and the
\* insertion-point count stored when m's request was processed, also with
\* several requests in flight.
C3_RecordCarriesOwnRequestData ==
    [][Appends =>
          (req_time[Appended.msg] # 0 =>
              /\ Appended.start_time = req_time[Appended.msg]
              /\ Appended.insertion_points = Params(Appended.msg))]_vars

\* C4: a response event whose own request event was never processed yields
\* exactly one record, with insertion-point count 0 and start time equal to
\* end time, whatever was processed before it.
C4_OrphanResponseDefaults ==
    \A i \in DOMAIN log_data :
        Requests(log_data[i].msg) \notin Range(enqueued) =>
            /\ log_data[i].insertion_points = 0
            /\ log_data[i].start_time = log_data[i].end_time
            /\ \A j \in DOMAIN log_data : log_data[j].msg = log_data[i].msg => j = i

\* C5: every record's request count is the number of records of the store,
\* up to and including itself, with exactly its URL; also when clear_logs
\* runs beside the worker.
C5_RequestCountIsUrlCount ==
    \A i \in DOMAIN log_data :
        log_data[i].request_count =
            Cardinality({ j \in 1..i : log_data[j].url = log_data[i].url })

\* C6: after any interleaving of enqueue, worker processing and clear_logs
\* the i-th record of the store has serial i (unique, dense from 1,
\* increasing).
C6_SerialsDense ==
    \A i \in DOMAIN log_data : log_data[i].serial = i

\* C7: whenever no clear_logs call is in progress, the correlation table
\* holds no entry created for a request whose response has been finalized
\* into the store.
C7_NoEntryForFinalized ==
    cpc = "idle" =>
        \A k \in DOMAIN request_tracking :
            \A i \in DOMAIN log_data : log_data[i].msg # request_tracking[k].msg

\* C8: clear is idempotent and resets the serial counter: the next record
\* appended after a clear has completed has serial 1.
C8_FirstSerialAfterClearIsOne ==
    [][(cleared /\ Appends) => Appended.serial = 1]_vars

\* C9: an export path that finds the store empty when it takes its snapshot
\* reports failure or nothing, and no file is created, truncated or modified
\* by it.
C9_EmptyExportReportsFailure ==
    [][\A e \in Exporters :
          /\ files'[PathOf(e)] # files[PathOf(e)] => data_snapshot[e] # << >>
          /\ (report'[e] # report[e] /\ data_snapshot[e] = << >>) =>
                report'[e].what # "ok"]_vars

\* the positions of an exporter while it writes its file
Writing == {"w_open", "w_header", "w_rows"}

\* C10: the rows one export writes are the store as it was at the instant of
\* the snapshot: the snapshot is the whole store in append order (with every
\* record appended before the call began, unless a clear intervened), no
\* append or clear during the write changes it, the rows written are its
\* rows, and the header's and the footer's totals are the number of rows.
C10_ExportWritesOneSnapshot ==
    [][\A e \in Exporters :
          /\ (xpc[e] = "w_snap" /\ xpc'[e] = "w_open") =>
                /\ data_snapshot'[e] = log_data
                /\ ~clear_seen[e] => IsPrefix(begin_store[e], data_snapshot'[e])
          /\ xpc[e] \in Writing => data_snapshot'[e] = data_snapshot[e]
          /\ (xpc[e] = "w_rows" /\ xpc'[e] # "w_rows") =>
                /\ files'[PathOf(e)].closed
                /\ files'[PathOf(e)].rows = CsvRows(data_snapshot[e])
                /\ files'[PathOf(e)].header = Len(files'[PathOf(e)].rows)
                /\ files'[PathOf(e)].footer = Len(files'[PathOf(e)].rows)]_vars

\* the shutdown backup has written all its rows and the store is no longer
\* what the snapshot holds (the worker appended or the log was cleared
\* during the write)
C10_Witness ==
    /\ xpc["exit"] = "w_rows"
    /\ Len(files["exit"].rows) = Len(data_snapshot["exit"])
    /\ log_data # data_snapshot["exit"]

\* the step ends the file-write phase of e without the footer written: the
\* handler of _write_full_csv caught an I/O error
WriteFailed(e) ==
    /\ xpc[e] \in Writing
    /\ xpc'[e] \notin Writing
    /\ xpc[e] = "w_rows" => files'[PathOf(e)].footer = -1

\* C11: an I/O error at any step of the write (open, header, a row, footer,
\* flush, close) ends the export with the failure report of its caller
\* (the caller goes on, nothing is raised past _write_full_csv), and no step
\* of an export, failed or not, changes the store, the serial counter, the
\* correlation table or the queue.
C11_IOFailureIsReported ==
    [][\A e \in UiExporters :
          /\ WriteFailed(e) => (xpc'[e] = "idle" /\ report'[e].what = "fail")
          /\ xpc'[e] # xpc[e] =>
                UNCHANGED <<log_data, request_counter, request_tracking,
                            processing_queue>>]_vars

\* a manual backup failed after it had opened its file, with records in the
\* store
C11_Witness ==
    /\ xpc["bak"] = "idle"
    /\ report["bak"].what = "fail"
    /\ files["bak"].exists
    /\ ~files["bak"].closed
    /\ Len(log_data) > 0

\* C12: the count a successful export reports is the number of rows that
\* export wrote to its file.
C12_ReportedCountIsRowsWritten ==
    [][\A e \in UiExporters :
          (report'[e] # report[e] /\ report'[e].what = "ok") =>
              report'[e].count = Len(files[e].rows)]_vars

\* the positions of the worker inside _handle_request and _handle_response
Handling ==
    {"rq_lock_d", "rq_read", "rq_lock_t", "rq_store",
     "rs_lock_d1", "rs_incr", "rs_lock_t", "rs_track", "rs_lock_d2", "rs_append"}
\* clear_logs has reset the store and the counter and not yet the table
HalfCleared == cpc \in {"c_lock_t", "c_reset_t"}

\* C16: no step of the worker's request or response processing happens
\* between clear_logs' reset of the store and the counter and its reset of
\* the correlation table.
C16_ClearIsAtomicForWorker ==
    [][(HalfCleared /\ wpc \in Handling) => wpc' = wpc]_vars

\* C17: while an export writes its file its thread holds none of the three
\* locks, so the worker's lock acquisitions for the append and for the table
\* update and its append itself are enabled whenever the worker is at them,
\* and the queue lock is free or held by a producer or the worker.
C17_NoLockHeldDuringWrite ==
    \A e \in UiExporters :
        xpc[e] \in Writing =>
            /\ ThreadOf(e) \notin {data_lock, tracking_lock, queue_lock}
            /\ wpc = "rs_lock_d2" => ENABLED W_RespLockData2
            /\ wpc = "rs_append" => ENABLED W_RespAppend
            /\ wpc = "rs_lock_t" => ENABLED W_RespLockTrack
            /\ wpc = "rq_lock_t" => ENABLED W_ReqLockTrack
            /\ \A p \in Producers :
                  (ppc[p] = "lock" /\ queue_lock = Free) => ENABLED P_Lock(p)

\* the manual backup is writing rows while the worker is about to take the
\* table lock for its update and a producer is about to take the queue lock
C17_Witness ==
    /\ xpc["bak"] = "w_rows"
    /\ wpc = "rq_lock_t"
    /\ ppc["p1"] = "lock"
    /\ tracking_lock = Free
    /\ queue_lock = Free

\* the file at a path is absent or a complete export: header, rows and footer
\* of one snapshot, closed
Complete(f) ==
    ~f.exists \/ (f.closed /\ f.header = Len(f.rows) /\ f.footer = Len(f.rows))

\* C18: when no export to a path is in progress, the file at the path is
\* absent or a complete export.
C18_NoPartialFile ==
    \A e \in UiExporters : xpc[e] = "idle" => Complete(files[e])

\* C14: a step in which the processing of an event raises leaves the worker
\* in its loop with the queue as it was and no lock taken, and every event
\* that has been enqueued is eventually dequeued and its processing ended.
C14_FailingEventDoesNotStopWorker ==
    /\ [][(wpc = "process" /\ wpc' \notin {"process", "rq_lock_d", "rs_lock_d1"}) =>
              /\ wpc' = "loop"
              /\ UNCHANGED <<processing_queue, queue_lock, data_lock, tracking_lock,
                             log_data, request_counter, request_tracking>>]_vars
    /\ \A ev \in Events :
          (ev \in Range(enqueued)) ~> (ev \in Range(dequeued) /\ work_item # ev)

\* the response of one message was taken from the queue and left no record
\* (its processing raised), and a response taken after it has its record
C14_Witness ==
    \E i, j \in DOMAIN dequeued :
        /\ i < j
        /\ ~dequeued[i].is_request
        /\ ~dequeued[j].is_request
        /\ work_item = NoItem
        /\ \A k \in DOMAIN log_data : log_data[k].msg # dequeued[i].msg
        /\ \E k \in DOMAIN log_data : log_data[k].msg = dequeued[j].msg

\* C13: two runs of the task whose observed clock values are less than
\* backup_interval_seconds apart do not both enter _auto_backup, also when
\* one of them is the run of a cancelled timer that is still going.
C13_TicksDebounced ==
    \A j, k \in Timers :
        (j # k /\ tpc[j] = "backup" /\ tpc[k] = "backup") =>
            \/ t_now[j] - t_now[k] >= backup_interval_seconds
            \/ t_now[k] - t_now[j] >= backup_interval_seconds

\* the positions of extensionUnloaded before it has cancelled the timer
BeforeCancel == {"idle", "join", "cancel"}

\* C15: no run of the timer task starts after extensionUnloaded has
\* cancelled the backup timer.
C15_NoTickAfterTeardown ==
    [][\A k \in Timers :
          (tpc[k] = "idle" /\ tpc'[k] # "idle") => xpc["exit"] \in BeforeCancel]_vars

ActiveTimers == { k \in Timers : timer_state[k] = "active" }

\* C19: at most one timer is active; _start_backup_scheduler has cancelled
\* the previous timer before it creates one; when it returns a timer is
\* active exactly when auto-backup is enabled, and it is the one
\* self.backup_timer refers to; _auto_backup is entered only from a run of
\* the task, and a run goes past its first test only on an active timer
\* with auto-backup enabled.
C19_AtMostOneActiveTimer ==
    /\ [](Cardinality(ActiveTimers) <= 1)
    /\ [][/\ (spc = "cancel" /\ spc' = "arm") => ActiveTimers' = {}
          /\ (spc = "arm" /\ spc' = "idle") =>
                ActiveTimers' = IF auto_backup_enabled' THEN {backup_timer'} ELSE {}
          /\ \A k \in Timers :
                /\ (xpc[k] = "idle" /\ xpc'[k] # "idle") => tpc[k] = "check"
                /\ (tpc[k] = "idle" /\ tpc'[k] = "check") =>
                      (auto_backup_enabled /\ k \in ActiveTimers)]_vars

\* save_settings has re-armed the scheduler while the cancelled timer's run
\* of the task is still inside _auto_backup
C19_Witness ==
    /\ spc = "idle"
    /\ timer_state["t1"] = "cancelled"
    /\ tpc["t1"] = "backup"
    /\ timer_state["t2"] = "active"
    /\ backup_timer = "t2"
    /\ auto_backup_enabled

\* C20: last_backup_time changes only at the end of a run of the task whose
\* automatic backup was written.
C20_LastBackupTimeIsLastWritten ==
    [][last_backup_time' # last_backup_time =>
          \E k \in Timers :
              tpc[k] = "backup" /\ tpc'[k] = "idle" /\ report[k].what = "ok"]_vars

\* the step ends the processing of an event before the first lock of its
\* handler: an accessor raised
ParseFailed == wpc = "process" /\ wpc' = "loop"

\* C24: a step in which the parsing of an event raises changes neither the
\* store nor the serial counter nor the correlation table, whether the event
\* is a request or a response; with such events the i-th record still has
\* serial i, and between events the counter is the number of records.
C24_FailingEventLeavesStateUnchanged ==
    /\ [][ParseFailed =>
              UNCHANGED <<log_data, request_counter, request_tracking>>]_vars
    /\ [](\A i \in DOMAIN log_data : log_data[i].serial = i)
    /\ [](work_item = NoItem => request_counter = Len(log_data))

\* a response left no record (its parsing raised) while an entry was in the
\* table, and a response taken after it has its record, with serial 1
C24_Witness ==
    \E i, j \in DOMAIN dequeued :
        /\ i < j
        /\ ~dequeued[i].is_request
        /\ ~dequeued[j].is_request
        /\ work_item = NoItem
        /\ Len(log_data) = 1
        /\ log_data[1].msg = dequeued[j].msg
        /\ log_data[1].serial = 1
        /\ Requests(dequeued[i].msg) \in Range(SubSeq(dequeued, 1, i))

\* the worker is in _handle_response between the increment of the counter
\* and the end of its section on the table
AfterIncrement == wpc \in {"rs_lock_t", "rs_track"}

\* the step is the section of _handle_response on the table
TableStep == wpc = "rs_track" /\ wpc' = "rs_lock_d2"

\* the step ends the processing of a response
ResponseDone == wpc = "rs_append" /\ wpc' = "loop"

\* the step is the section of _handle_request that stores the entry
StoreStep == wpc = "rq_store" /\ wpc' = "loop"

\* C23 (amended): without clear_logs the table has at most one entry in every
\* state; its key is the counter plus one, except between the increment of
\* _handle_response and its section on the table, where the key is the
\* counter; the table is empty after that section and when the response has
\* been processed; a request stored while an entry is pending replaces it.
C23_OnePendingEntry ==
    /\ [](Cardinality(DOMAIN request_tracking) <= 1)
    /\ [](\A k \in DOMAIN request_tracking :
             IF AfterIncrement THEN k = request_counter
                               ELSE k = request_counter + 1)
    /\ [][TableStep \/ ResponseDone => request_tracking' = EmptyDict]_vars
    /\ [][StoreStep /\ request_tracking # EmptyDict =>
              /\ DOMAIN request_tracking' = DOMAIN request_tracking
              /\ request_tracking'[w_id].msg = work_item.msg]_vars

\* the entry of the first request has been replaced by that of the second
C23_Witness ==
    /\ req_time[1] > 0
    /\ DOMAIN request_tracking = {1}
    /\ request_tracking[1].msg = 2
    /\ request_counter = 0

\* C23 (as stated): in every state the key of every entry is the counter
\* plus one.
C23_KeyIsCounterPlusOne ==
    \A k \in DOMAIN request_tracking : k = request_counter + 1

\* the worker has passed the test of its loop and not yet left the section
\* on the queue
InPoll == wpc \in {"q_lock", "q_pop"}

\* the step takes an event from the queue
Dequeues == dequeued' # dequeued

\* the step of extensionUnloaded that sets the flag
SetsFlag == xpc["exit"] = "idle" /\ xpc'["exit"] = "join"

\* C21 (amended): the flag changes only in the teardown hook and is never
\* reset; once it is set the worker does not enter the section on the queue
\* again, so it takes an event only if it had passed the test of its loop
\* before, and at most one; a stopped worker stays stopped and takes nothing;
\* under fair scheduling the worker stops.
C21_FlagStopsWorker ==
    /\ [][shutdown_flag' # shutdown_flag => SetsFlag /\ shutdown_flag']_vars
    /\ [][shutdown_flag /\ ~InPoll => ~InPoll']_vars
    /\ [][Dequeues => wpc = "q_pop" /\ wpc' = "process"]_vars
    /\ [][wpc = "stopped" => wpc' = "stopped" /\ ~Dequeues]_vars
    /\ (shutdown_flag ~> wpc = "stopped")

\* the worker has stopped and left an event in the queue
C21_Witness ==
    /\ shutdown_flag
    /\ wpc = "stopped"
    /\ processing_queue # << >>

\* C21 (as stated): once the flag is set no event is taken from the queue.
C21_NoDequeueAfterFlag == [][shutdown_flag => ~Dequeues]_vars

\* the threads that take locks, and the three locks
Threads == Producers \cup {"worker", "ui", "exit"} \cup Timers
Locks == {"queue", "data", "tracking"}
Owner(l) == CASE l = "queue" -> queue_lock
              [] l = "data" -> data_lock
              [] l = "tracking" -> tracking_lock

\* the locks a thread holds
Held(t) == { l \in Locks : Owner(l) = t }

\* the calls of the exporters a thread runs
CallsOf(t) == { e \in Exporters : ThreadOf(e) = t }

\* the locks a thread stands before: its next statement is lock()
Waiting(t) ==
    (IF t \in Producers /\ ppc[t] = "lock" THEN {"queue"} ELSE {})
    \cup (IF t = "worker" /\ wpc = "q_lock" THEN {"queue"} ELSE {})
    \cup (IF t = "worker" /\ wpc \in {"rq_lock_d", "rs_lock_d1", "rs_lock_d2"}
          THEN {"data"} ELSE {})
    \cup (IF t = "worker" /\ wpc \in {"rq_lock_t", "rs_lock_t"} THEN {"tracking"} ELSE {})
    \cup (IF t = "ui" /\ cpc = "c_lock_d" THEN {"data"} ELSE {})
    \cup (IF t = "ui" /\ cpc = "c_lock_t" THEN {"tracking"} ELSE {})
    \cup (IF \E e \in CallsOf(t) : xpc[e] \in {"hd_lock", "w_lock", "cnt_lock"}
          THEN {"data"} ELSE {})

\* the locks whose try block a thread is in, by its position in the code
InSection(t) ==
    (IF t \in Producers /\ ppc[t] = "locked" THEN {"queue"} ELSE {})
    \cup (IF t = "worker" /\ wpc = "q_pop" THEN {"queue"} ELSE {})
    \cup (IF t = "worker" /\ wpc \in {"rq_read", "rs_incr", "rs_append"}
          THEN {"data"} ELSE {})
    \cup (IF t = "worker" /\ wpc \in {"rq_store", "rs_track"} THEN {"tracking"} ELSE {})
    \cup (IF t = "ui" /\ cpc \in {"c_count", "c_reset_d"} THEN {"data"} ELSE {})
    \cup (IF t = "ui" /\ cpc = "c_reset_t" THEN {"tracking"} ELSE {})
    \cup (IF \E e \in CallsOf(t) : xpc[e] \in {"hd_read", "w_snap", "cnt_read"}
          THEN {"data"} ELSE {})

\* the threads that run, with the locks their code takes
Contenders ==
    {<<"p1", "queue">>, <<"worker", "queue">>, <<"worker", "data">>,
     <<"worker", "tracking">>, <<"ui", "data">>, <<"ui", "tracking">>,
     <<"exit", "data">>}

====
